---- MODULE Spec2Model ----
(***************************************************************************)
(* Blog backend (FastAPI + SQLModel): the request handlers of              *)
(* app/routers/auth.py and app/routers/blog.py over the three tables of    *)
(* app/models.py, with the bearer-token dependency of app/security.py.     *)
(*                                                                         *)
(* Each handler is one atomic action: it reads the request drawn from the  *)
(* bounded input sets, runs the handler's checks in the order of the code, *)
(* and leaves the request and its response in req / resp.  A handler's     *)
(* input is the body the framework has already validated against its      *)
(* schema (app/schemas.py): passwords are non-empty, a blog body's         *)
(* category is a CategoryEnum value.                                       *)
(***************************************************************************)
EXTENDS Integers, Sequences, FiniteSets, TLC

VARIABLES users, categories, blogs, now, req, resp, registered, inflight

vars == <<users, categories, blogs, now, req, resp, registered, inflight>>

-----------------------------------------------------------------------------
(* Bounds of the model *)

MaxTime == 2
MaxLimit == 2
MaxPage == 2
NumWorkers == 2

(* Program constants *)

ACCESS_TOKEN_EXPIRE_MINUTES == 30

SECRET_KEY == "server-secret"

HTTP_200_OK == 200
HTTP_201_CREATED == 201
HTTP_400_BAD_REQUEST == 400
HTTP_401_UNAUTHORIZED == 401
HTTP_403_FORBIDDEN == 403
HTTP_404_NOT_FOUND == 404
HTTP_409_CONFLICT == 409
HTTP_500_INTERNAL_SERVER_ERROR == 500

CategoryEnum == {"business", "technology", "fashion", "travel", "food", "education"}

-----------------------------------------------------------------------------
(* Strings the code takes apart are sequences of characters *)

Email(local, domain) == <<local, "@", domain>>

Emails == {Email("a", "x"), Email("a", "y"), Email("b", "x")}

Passwords == {"p", "q"}

FullNames == {"Ann", "Bob"}

\* email.split('@')[0]: the characters before the first '@' (all of them if none)
RECURSIVE SplitAtFirst(_)
SplitAtFirst(s) ==
    IF s = <<>> \/ Head(s) = "@" THEN <<>>
    ELSE <<Head(s)>> \o SplitAtFirst(Tail(s))

\* f"user_{body.email.split('@')[0]}"
UserIdOf(email) == <<"u", "s", "e", "r", "_">> \o SplitAtFirst(email)

UserIds == {UserIdOf(e) : e \in Emails}

\* the name a client registers under: one per local part
FullNamesOf(email) == IF SplitAtFirst(email) = <<"a">> THEN {"Ann"} ELSE {"Bob"}

\* Python's None where a string is expected, and str(None)
NoneStr == <<"<None>">>

Str(v) == IF v = NoneStr THEN <<"N", "o", "n", "e">> ELSE v

-----------------------------------------------------------------------------
(* Tokens: jose's jwt.encode / jwt.decode over a claims dictionary *)

NoToken == [kind |-> "absent", key |-> "", sub |-> NoneStr, exp |-> 0]

GarbageToken == [kind |-> "garbage", key |-> "", sub |-> NoneStr, exp |-> 0]

JwtEncode(sub, exp, key) == [kind |-> "jwt", key |-> key, sub |-> sub, exp |-> exp]

\* create_access_token(data={"sub": id}): exp = utcnow + the configured lifetime
create_access_token(sub, t) ==
    JwtEncode(sub, t + ACCESS_TOKEN_EXPIRE_MINUTES, SECRET_KEY)

\* The bearer strings a client may send at time t: garbage; tokens signed with
\* the server's key, with or without a subject, that expired before t, expire
\* at t, or were issued at t; and tokens signed with another key.
TokenInputs(t) ==
    {GarbageToken} \cup
    {JwtEncode(s, e, SECRET_KEY) :
        s \in UserIds \cup {NoneStr},
        e \in {t - 1, t, t + ACCESS_TOKEN_EXPIRE_MINUTES}} \cup
    {JwtEncode(s, t + ACCESS_TOKEN_EXPIRE_MINUTES, "other-secret") : s \in UserIds}

-----------------------------------------------------------------------------
(* Requests and responses *)

\* A Python value met where the code expects a category: a bare string (what a
\* CategoryEnum field holds under use_enum_values) or a CategoryResponse object
PyStr(v) == [type |-> "str", value |-> v, id |-> <<>>, name |-> ""]

CategoryResponse(id, name) ==
    [type |-> "CategoryResponse", value |-> "", id |-> id, name |-> name]

NoBody == [title |-> "", content |-> "", image_url |-> "", category |-> PyStr("")]

NoReq == [op |-> "none", email |-> <<>>, password |-> "", confirmation_password |-> "",
          full_name |-> "", token |-> NoToken, limit |-> 0, page |-> 0,
          uid |-> NoneStr, bid |-> "", body |-> NoBody]

NoUserResponse == [id |-> NoneStr, full_name |-> "", email |-> <<>>,
                   following |-> 0, follower |-> 0]

NoResp == [status |-> 0, detail |-> "", user_id |-> NoneStr, token |-> NoToken,
           items |-> <<>>, profile |-> NoUserResponse]

Fail(status, detail) == [NoResp EXCEPT !.status = status, !.detail = detail]

-----------------------------------------------------------------------------
(* The tables.  A commit that breaks a primary key or a unique column raises *)
(* IntegrityError and stores nothing.                                        *)

UserRow(id, email, password, full_name) ==
    [id |-> id, email |-> email, password |-> password, full_name |-> full_name]

\* select(User).where(User.email == email).first()
UsersByEmail(email) == {u \in users : u.email = email}

\* db.get(User, id)
UsersById(id) == {u \in users : u.id = id}

\* models.py: id is the primary key, email is unique
UserInsertOk(u) ==
    /\ \A v \in users : v.id # u.id
    /\ \A v \in users : v.email # u.email

NoUser == UserRow(NoneStr, <<>>, "", "")

BlogRow(id, title, content, image_url, creator_id, category_id, created_at, updated_at) ==
    [id |-> id, title |-> title, content |-> content, image_url |-> image_url,
     creator_id |-> creator_id, category_id |-> category_id,
     created_at |-> created_at, updated_at |-> updated_at]

OneOf(S) == CHOOSE x \in S : TRUE

-----------------------------------------------------------------------------
(* app/routers/auth.py *)

\* (PasswordsDiffer with the comparison left out)
PasswordsDifferNever(password, confirmation_password) == FALSE

\* register, step 1: body.password != body.confirmation_password
PasswordsDiffer(password, confirmation_password) ==
    password # confirmation_password

\* (EmailTaken with the lookup left out)
EmailTakenNever(email) == FALSE

\* register, step 2: existing_user is truthy
EmailTaken(email) == UsersByEmail(email) # {}

\* (PasswordWrong with the comparison left out)
PasswordWrongNever(password, user) == FALSE

\* login, step 2: body.password != user.password
PasswordWrong(password, user) == password # user.password

\* (register committing the row before it checks the confirmation)
register_insert_first(email, password, confirmation_password, full_name) ==
    LET new_user == UserRow(UserIdOf(email), email, password, full_name)
    IN  /\ req' = [NoReq EXCEPT !.op = "register", !.email = email,
                                !.password = password,
                                !.confirmation_password = confirmation_password,
                                !.full_name = full_name]
        /\ IF EmailTaken(email)
              THEN /\ resp' = Fail(HTTP_409_CONFLICT, "email registered")
                   /\ UNCHANGED <<users, registered>>
           ELSE IF ~UserInsertOk(new_user)
              THEN /\ resp' = Fail(HTTP_500_INTERNAL_SERVER_ERROR, "IntegrityError")
                   /\ UNCHANGED <<users, registered>>
           ELSE /\ users' = users \cup {new_user}
                /\ UNCHANGED registered
                /\ IF PasswordsDiffer(password, confirmation_password)
                      THEN resp' = Fail(HTTP_400_BAD_REQUEST, "confirmation mismatch")
                   ELSE resp' = [NoResp EXCEPT !.status = HTTP_201_CREATED,
                                               !.user_id = new_user.id]
        /\ UNCHANGED <<categories, blogs, now, inflight>>

register(email, password, confirmation_password, full_name) ==
    LET new_user == UserRow(UserIdOf(email), email, password, full_name)
    IN  /\ req' = [NoReq EXCEPT !.op = "register", !.email = email,
                                !.password = password,
                                !.confirmation_password = confirmation_password,
                                !.full_name = full_name]
        /\ IF PasswordsDiffer(password, confirmation_password)
              THEN /\ resp' = Fail(HTTP_400_BAD_REQUEST, "confirmation mismatch")
                   /\ UNCHANGED <<users, registered>>
           ELSE IF EmailTaken(email)
              THEN /\ resp' = Fail(HTTP_409_CONFLICT, "email registered")
                   /\ UNCHANGED <<users, registered>>
           ELSE IF ~UserInsertOk(new_user)
              THEN \* db.commit() raises IntegrityError, nothing is stored
                   /\ resp' = Fail(HTTP_500_INTERNAL_SERVER_ERROR, "IntegrityError")
                   /\ UNCHANGED <<users, registered>>
           ELSE /\ users' = users \cup {new_user}
                /\ resp' = [NoResp EXCEPT !.status = HTTP_201_CREATED,
                                          !.user_id = new_user.id]
                /\ registered' = registered \cup
                       {[email |-> email, password |-> password, id |-> new_user.id,
                         full_name |-> full_name]}
        /\ UNCHANGED <<categories, blogs, now, inflight>>

login(email, password) ==
    /\ req' = [NoReq EXCEPT !.op = "login", !.email = email, !.password = password]
    /\ IF UsersByEmail(email) = {}
          THEN resp' = Fail(HTTP_401_UNAUTHORIZED, "bad credentials")
       ELSE LET user == OneOf(UsersByEmail(email))
            IN  IF PasswordWrong(password, user)
                  THEN resp' = Fail(HTTP_401_UNAUTHORIZED, "bad credentials")
                ELSE resp' = [NoResp EXCEPT !.status = HTTP_200_OK,
                                            !.user_id = user.id,
                                            !.token = create_access_token(user.id, now)]
    /\ UNCHANGED <<users, categories, blogs, now, registered, inflight>>

-----------------------------------------------------------------------------
(* app/security.py: the bearer-token dependency *)

NoPayload == [valid |-> FALSE, sub |-> NoneStr, exp |-> 0]

\* (decode_access_token reading the claims without verifying signature or expiry)
decode_access_token_unchecked(token, t) ==
    IF token.kind # "jwt" THEN NoPayload
    ELSE [valid |-> TRUE, sub |-> token.sub, exp |-> token.exp]

\* jwt.decode raises JWTError on a string that is no token, on a signature the
\* key does not verify, and on an expiry before the current time; the handler
\* of JWTError returns None
decode_access_token(token, t) ==
    IF token.kind # "jwt" THEN NoPayload
    ELSE IF token.key # SECRET_KEY THEN NoPayload
    ELSE IF token.exp < t THEN NoPayload
    ELSE [valid |-> TRUE, sub |-> token.sub, exp |-> token.exp]

\* get_current_user: the user the token names, or the 401 it raises
get_current_user(token) ==
    LET payload == decode_access_token(token, now)
        denied(detail) == [ok |-> FALSE, user |-> NoUser,
                           resp |-> Fail(HTTP_401_UNAUTHORIZED, detail)]
    IN  IF ~payload.valid THEN denied("invalid or expired token")
        ELSE IF payload.sub = NoneStr THEN denied("invalid token")
        ELSE IF UsersById(payload.sub) = {} THEN denied("unknown user")
        ELSE [ok |-> TRUE, user |-> OneOf(UsersById(payload.sub)), resp |-> NoResp]

-----------------------------------------------------------------------------
(* app/routers/blog.py *)

\* db.get(Category, id) and select(Category).where(Category.name == name)
CategoriesById(id) == {c \in categories : c.id = id}

CategoriesByName(name) == {c \in categories : c.name = name}

BlogsById(id) == {b \in blogs : b.id = id}

Min(a, b) == IF a < b THEN a ELSE b

\* ORDER BY created_at DESC: every arrangement of the rows in which no row
\* comes before one created later; rows created at the same instant come in
\* whichever order the database picks for this query
DescOrders(rows) ==
    {f \in [1..Cardinality(rows) -> rows] :
        /\ \A i, j \in 1..Cardinality(rows) : i # j => f[i] # f[j]
        /\ \A i, j \in 1..Cardinality(rows) : i < j => f[i].created_at >= f[j].created_at}

\* OFFSET offset LIMIT limit
Page(ord, offset, limit) ==
    IF offset >= Len(ord) THEN <<>>
    ELSE SubSeq(ord, offset + 1, Min(offset + limit, Len(ord)))

\* reading an attribute of a Python value: a str has neither .id nor .name
HasAttr(obj, attr) == obj.type = "CategoryResponse" /\ attr \in {"id", "name"}

\* UserResponse(id=str(u.id), full_name=..., email=..., following=15, follower=80)
UserResponse(u) ==
    [id |-> Str(u.id), full_name |-> u.full_name, email |-> u.email,
     following |-> 15, follower |-> 80]

\* schemas.BlogResponse declares category: CategoryEnum; building it from any
\* other value raises a validation error
BlogResponseAccepts(category) == category.type = "str" /\ category.value \in CategoryEnum

BlogResponse(b, creator, category) ==
    [id |-> b.id, title |-> b.title, content |-> b.content, image_url |-> b.image_url,
     category |-> category, created_at |-> b.created_at, updated_at |-> b.updated_at,
     creator |-> UserResponse(creator)]

\* the loop of get_blogs over one row: what it raises, or "" when it appends
RowError(b) ==
    IF UsersById(b.creator_id) = {} THEN "creator missing"
    ELSE IF CategoriesById(b.category_id) = {} THEN "category missing"
    ELSE LET c == OneOf(CategoriesById(b.category_id))
         IN  IF ~BlogResponseAccepts(CategoryResponse(Str(c.id), c.name))
               THEN "ValidationError"
             ELSE ""

RECURSIVE FirstError(_)
FirstError(rows) ==
    IF rows = <<>> THEN ""
    ELSE IF RowError(Head(rows)) # "" THEN RowError(Head(rows))
    ELSE FirstError(Tail(rows))

\* get_blogs once the caller is authenticated: the rows of the page, mapped
\* one by one; the first row that cannot be mapped ends the request
list_response(limit, page, ord) ==
    LET offset == (page - 1) * limit
        rows == Page(ord, offset, limit)
    IN  IF FirstError(rows) # ""
          THEN Fail(HTTP_500_INTERNAL_SERVER_ERROR, FirstError(rows))
        ELSE [NoResp EXCEPT
                !.status = HTTP_200_OK,
                !.items = [i \in 1..Len(rows) |->
                    BlogResponse(rows[i], OneOf(UsersById(rows[i].creator_id)),
                        LET c == OneOf(CategoriesById(rows[i].category_id))
                        IN  CategoryResponse(Str(c.id), c.name))]]

get_blogs(token, limit, page, ord) ==
    LET auth == get_current_user(token)
    IN  /\ req' = [NoReq EXCEPT !.op = "list", !.token = token,
                                !.limit = limit, !.page = page]
        /\ IF ~auth.ok THEN resp' = auth.resp
           ELSE resp' = list_response(limit, page, ord)
        /\ UNCHANGED <<users, categories, blogs, now, registered, inflight>>

\* (get_user_by_id answering with the caller's own row)
get_user_by_id_of_caller(token, id) ==
    LET auth == get_current_user(token)
    IN  /\ req' = [NoReq EXCEPT !.op = "profile", !.token = token, !.uid = id]
        /\ IF ~auth.ok THEN resp' = auth.resp
           ELSE resp' = [NoResp EXCEPT !.status = HTTP_200_OK,
                                       !.profile = UserResponse(auth.user)]
        /\ UNCHANGED <<users, categories, blogs, now, registered, inflight>>

get_user_by_id(token, id) ==
    LET auth == get_current_user(token)
    IN  /\ req' = [NoReq EXCEPT !.op = "profile", !.token = token, !.uid = id]
        /\ IF ~auth.ok THEN resp' = auth.resp
           ELSE IF UsersById(id) = {}
              THEN resp' = Fail(HTTP_404_NOT_FOUND, "user not found")
           ELSE resp' = [NoResp EXCEPT !.status = HTTP_200_OK,
                                       !.profile = UserResponse(OneOf(UsersById(id)))]
        /\ UNCHANGED <<users, categories, blogs, now, registered, inflight>>

\* str.strip(): the string without its leading and trailing blanks
RECURSIVE LStrip(_)
LStrip(s) == IF s # <<>> /\ Head(s) = " " THEN LStrip(Tail(s)) ELSE s

RECURSIVE Strip(_)
Strip(s) ==
    LET t == LStrip(s)
    IN  IF t # <<>> /\ t[Len(t)] = " " THEN Strip(SubSeq(t, 1, Len(t) - 1)) ELSE t

\* steps 1 of create_blog and 3 of update_blog: by id when the body gives a
\* non-blank one, else by name; the empty set stands for None
ResolveCategory(category) ==
    LET by_id == IF category.id # <<>> /\ Strip(category.id) # <<>>
                   THEN CategoriesById(category.id) ELSE {}
    IN  IF by_id # {} THEN by_id
        ELSE IF category.name # "" THEN CategoriesByName(category.name)
        ELSE {}

\* (NotCreator with the ownership check left out)
NotCreatorNever(blog, user) == FALSE

\* update_blog, step 2: str(blog.creator_id) != str(current_user.id)
NotCreator(blog, user) == Str(blog.creator_id) # Str(user.id)

\* (create_blog storing the row without looking the category up)
create_blog_no_lookup(token, body, new_id) ==
    LET auth == get_current_user(token)
        new_blog == BlogRow(new_id, body.title, body.content, body.image_url,
                            Str(auth.user.id), <<body.category.value>>, now, now)
    IN  /\ req' = [NoReq EXCEPT !.op = "create", !.token = token, !.body = body]
        /\ IF ~auth.ok THEN resp' = auth.resp /\ UNCHANGED blogs
           ELSE /\ blogs' = blogs \cup {new_blog}
                /\ resp' = Fail(HTTP_500_INTERNAL_SERVER_ERROR, "ValidationError")
        /\ UNCHANGED <<users, categories, now, registered, inflight>>

\* create_blog: the handler reads body.category.id, but UpsertBlogBody declares
\* category a CategoryEnum, so the body holds a string
create_blog(token, body, new_id) ==
    LET auth == get_current_user(token)
        found == ResolveCategory(body.category)
        new_blog == BlogRow(new_id, body.title, body.content, body.image_url,
                            Str(auth.user.id), Str(OneOf(found).id), now, now)
    IN  /\ req' = [NoReq EXCEPT !.op = "create", !.token = token, !.body = body]
        /\ IF ~auth.ok THEN resp' = auth.resp /\ UNCHANGED blogs
           ELSE IF ~HasAttr(body.category, "id")
              THEN \* body.category.id raises AttributeError
                   /\ resp' = Fail(HTTP_500_INTERNAL_SERVER_ERROR, "AttributeError")
                   /\ UNCHANGED blogs
           ELSE IF found = {}
              THEN /\ resp' = Fail(HTTP_404_NOT_FOUND, "category not found")
                   /\ UNCHANGED blogs
           ELSE \* the row is committed, then BlogResponse is built from a
                \* CategoryResponse object and raises
                /\ blogs' = blogs \cup {new_blog}
                /\ resp' = Fail(HTTP_500_INTERNAL_SERVER_ERROR, "ValidationError")
        /\ UNCHANGED <<users, categories, now, registered, inflight>>

update_blog(token, id, body) ==
    LET auth == get_current_user(token)
        found == ResolveCategory(body.category)
    IN  /\ req' = [NoReq EXCEPT !.op = "update", !.token = token, !.bid = id,
                                !.body = body]
        /\ IF ~auth.ok THEN resp' = auth.resp /\ UNCHANGED blogs
           ELSE IF BlogsById(id) = {}
              THEN /\ resp' = Fail(HTTP_404_NOT_FOUND, "blog not found")
                   /\ UNCHANGED blogs
           ELSE IF NotCreator(OneOf(BlogsById(id)), auth.user)
              THEN /\ resp' = Fail(HTTP_403_FORBIDDEN, "not the creator")
                   /\ UNCHANGED blogs
           ELSE IF ~HasAttr(body.category, "id")
              THEN \* body.category.id raises AttributeError
                   /\ resp' = Fail(HTTP_500_INTERNAL_SERVER_ERROR, "AttributeError")
                   /\ UNCHANGED blogs
           ELSE IF found = {}
              THEN /\ resp' = Fail(HTTP_404_NOT_FOUND, "category not found")
                   /\ UNCHANGED blogs
           ELSE LET blog == OneOf(BlogsById(id))
                    updated == [blog EXCEPT !.title = body.title,
                                            !.content = body.content,
                                            !.image_url = body.image_url,
                                            !.category_id = Str(OneOf(found).id),
                                            !.updated_at = now]
                IN  /\ blogs' = (blogs \ {blog}) \cup {updated}
                    /\ resp' = Fail(HTTP_500_INTERNAL_SERVER_ERROR, "ValidationError")
        /\ UNCHANGED <<users, categories, now, registered, inflight>>

-----------------------------------------------------------------------------
(* The clock the handlers read with datetime.utcnow() *)

Tick ==
    /\ now < MaxTime
    /\ now' = now + 1
    /\ req' = NoReq
    /\ resp' = NoResp
    /\ UNCHANGED <<users, categories, blogs, registered, inflight>>

-----------------------------------------------------------------------------
(* register under concurrent requests.  Each request runs in its own session *)
(* and transaction: the lookup of step 2 reads the committed rows, and the   *)
(* row is written by db.commit() in step 4; other requests may run between   *)
(* the two.  inflight[w] is the request worker w is serving.                 *)

Workers == 1..NumWorkers

Idle == [pc |-> "idle", email |-> <<>>, password |-> "", confirmation_password |-> "",
         full_name |-> "", status |-> 0, user_id |-> NoneStr]

\* register, steps 1 and 2: the confirmation check and the lookup by email
register_check(w, email, password, confirmation_password, full_name) ==
    LET r == [Idle EXCEPT !.email = email, !.password = password,
                          !.confirmation_password = confirmation_password,
                          !.full_name = full_name]
    IN  /\ inflight[w].pc = "idle"
        /\ IF PasswordsDiffer(password, confirmation_password)
              THEN inflight' = [inflight EXCEPT ![w] =
                       [r EXCEPT !.pc = "done", !.status = HTTP_400_BAD_REQUEST]]
           ELSE IF EmailTaken(email)
              THEN inflight' = [inflight EXCEPT ![w] =
                       [r EXCEPT !.pc = "done", !.status = HTTP_409_CONFLICT]]
           ELSE inflight' = [inflight EXCEPT ![w] = [r EXCEPT !.pc = "commit"]]
        /\ UNCHANGED <<users, categories, blogs, now, req, resp, registered>>

\* register, steps 3 to 5: the row is built and committed; a commit that
\* breaks the primary key or the unique email raises IntegrityError
register_commit(w) ==
    LET r == inflight[w]
        new_user == UserRow(UserIdOf(r.email), r.email, r.password, r.full_name)
    IN  /\ r.pc = "commit"
        /\ IF ~UserInsertOk(new_user)
              THEN /\ inflight' = [inflight EXCEPT ![w] =
                          [r EXCEPT !.pc = "done",
                                    !.status = HTTP_500_INTERNAL_SERVER_ERROR]]
                   /\ UNCHANGED users
           ELSE /\ users' = users \cup {new_user}
                /\ inflight' = [inflight EXCEPT ![w] =
                          [r EXCEPT !.pc = "done", !.status = HTTP_201_CREATED,
                                    !.user_id = new_user.id]]
        /\ UNCHANGED <<categories, blogs, now, req, resp, registered>>

-----------------------------------------------------------------------------
(* The database when the process starts: tables that exist are kept, so the  *)
(* rows of earlier runs are there.  Either only the categories are seeded,   *)
(* or one user and three of their blogs (two created at the same instant)    *)
(* are stored as well.  Every seed satisfies the schema's keys.              *)

SeedCategories ==
    {[id |-> <<"c", "1">>, name |-> "business"],
     [id |-> <<"c", "2">>, name |-> "technology"]}

SeedUser == UserRow(UserIdOf(Email("a", "x")), Email("a", "x"), "p", "Ann")

SeedBlogs ==
    {BlogRow("b1", "t1", "c", "i", SeedUser.id, <<"c", "1">>, 0, 0),
     BlogRow("b2", "t2", "c", "i", SeedUser.id, <<"c", "2">>, 0, 0),
     BlogRow("b3", "t1", "c", "i", SeedUser.id, <<"c", "1">>, 1, 1)}

Init ==
    /\ categories = SeedCategories
    /\ \/ users = {} /\ blogs = {}
       \/ users = {SeedUser} /\ blogs = SeedBlogs
    /\ now = 1
    /\ req = NoReq
    /\ resp = NoResp
    /\ registered = {}
    /\ inflight = [w \in Workers |-> Idle]

RegisterStep ==
    \E e \in Emails, p \in Passwords, c \in Passwords :
        \E f \in FullNamesOf(e) : register(e, p, c, f)

LoginStep == \E e \in Emails, p \in Passwords : login(e, p)

Limits == 1..MaxLimit

Pages == 1..MaxPage

\* UpsertBlogBody: category is a CategoryEnum value
UpsertBlogBody(title, category) ==
    [title |-> title, content |-> "c", image_url |-> "i", category |-> PyStr(category)]

UpsertBlogBodies == {UpsertBlogBody("t1", "travel"), UpsertBlogBody("t2", "business")}

BlogIds == {"b1", "b2", "b3", "b4"}

ListStep ==
    \E tok \in TokenInputs(now), l \in Limits, p \in Pages, ord \in DescOrders(blogs) :
        get_blogs(tok, l, p, ord)

ProfileStep ==
    \E tok \in TokenInputs(now), id \in UserIds : get_user_by_id(tok, id)

\* str(uuid.uuid4()): an id no stored blog has
CreateStep ==
    \E tok \in TokenInputs(now), body \in UpsertBlogBodies,
       id \in BlogIds \ {b.id : b \in blogs} :
        create_blog(tok, body, id)

\* a stored blog of the seeded store, and an id no blog has
UpdateTargets == {"b1", "b4"}

UpdateStep ==
    \E tok \in TokenInputs(now), id \in UpdateTargets, body \in UpsertBlogBodies :
        update_blog(tok, id, body)

Next ==
    \/ RegisterStep
    \/ LoginStep
    \/ ListStep
    \/ ProfileStep
    \/ CreateStep
    \/ UpdateStep
    \/ Tick

Spec == Init /\ [][Next]_vars

\* the emails of the concurrent requests: no two share a local part, so the
\* derived ids differ whenever the emails do
ConcurrentEmails == {Email("a", "x"), Email("b", "x")}

CheckStep ==
    \E w \in Workers, e \in ConcurrentEmails, p \in Passwords, c \in Passwords :
        \E f \in FullNamesOf(e) : register_check(w, e, p, c, f)

CommitStep == \E w \in Workers : register_commit(w)

NextConcurrent ==
    \/ CheckStep
    \/ CommitStep

SpecConcurrent == Init /\ [][NextConcurrent]_vars

-----------------------------------------------------------------------------
(* Properties.  req and resp hold the request the last step handled and the    *)
(* response it got (Tick clears them), so a property of a handler reads them   *)
(* in the state after the step, and the store before the step unprimed.        *)

\* What a bearer token must be for the caller to be authenticated at time t
\* against the users us: signed with the server's key, not past its expiry,
\* carrying a subject that is the id of a stored user.
TokenGood(token, t, us) ==
    /\ token.kind = "jwt"
    /\ token.key = SECRET_KEY
    /\ token.exp >= t
    /\ token.sub # NoneStr
    /\ \E u \in us : u.id = token.sub

Authenticated == {"list", "profile", "create", "update"}

\* C1: for every (email, password) pair registered successfully, a later login
\* with that pair succeeds (200) and returns a token that verifies and whose
\* subject is the id the registration returned; a login with that email and
\* another password, or with an email no user has, fails with 401 and returns
\* no token.
C1_LoginAfterRegister ==
    req.op = "login" =>
        /\ \A r \in registered :
              (r.email = req.email /\ r.password = req.password) =>
                  /\ resp.status = HTTP_200_OK
                  /\ decode_access_token(resp.token, now).valid
                  /\ decode_access_token(resp.token, now).sub = r.id
        /\ ( \/ \E r \in registered : r.email = req.email /\ r.password # req.password
             \/ \A u \in users : u.email # req.email )
              => resp.status = HTTP_401_UNAUTHORIZED /\ resp.token = NoToken

C1_Witness ==
    /\ req.op = "login"
    /\ resp.status = HTTP_200_OK
    /\ \E r \in registered :
          r.email = req.email /\ r.password = req.password /\ resp.token.sub = r.id

\* C2: a list, profile, create or update request gets past authentication only
\* when its token is signed by the server, is not past its expiry and names a
\* stored user; with any other token it ends in 401 and users and blogs are as
\* before.
C2_AuthenticatedOnly ==
    [][req'.op \in Authenticated =>
          /\ resp'.status # HTTP_401_UNAUTHORIZED => TokenGood(req'.token, now, users)
          /\ ~TokenGood(req'.token, now, users) =>
                /\ resp'.status = HTTP_401_UNAUTHORIZED
                /\ users' = users
                /\ blogs' = blogs]_vars

C2_Witness ==
    /\ req.op = "update"
    /\ req.token.kind = "jwt" /\ req.token.key = SECRET_KEY
    /\ \E u \in users : u.id = req.token.sub
    /\ req.token.exp < now
    /\ resp.status = HTTP_401_UNAUTHORIZED

\* C3: an update of a stored blog by an authenticated caller who is not its
\* creator ends in 403 whatever the body, and changes no blog; and whenever a
\* step changes or removes a stored blog, the step is an update of that blog
\* authenticated as its creator.
C3_OnlyCreatorUpdates ==
    [][/\ ( /\ req'.op = "update"
            /\ TokenGood(req'.token, now, users)
            /\ \E b \in blogs : b.id = req'.bid /\ b.creator_id # req'.token.sub )
          => resp'.status = HTTP_403_FORBIDDEN /\ blogs' = blogs
       /\ \A b \in blogs :
             b \notin blogs' =>
                /\ req'.op = "update"
                /\ req'.bid = b.id
                /\ TokenGood(req'.token, now, users)
                /\ req'.token.sub = b.creator_id]_vars

C3_Witness ==
    /\ req.op = "update"
    /\ resp.status = HTTP_403_FORBIDDEN
    /\ \E b \in blogs : b.id = req.bid /\ b.creator_id # req.token.sub

\* C4: a register request whose password equals its confirmation and whose
\* email already belongs to a stored user ends in 409 and leaves the users as
\* they were.
C4_DuplicateEmailConflict ==
    [][( /\ req'.op = "register"
         /\ req'.password = req'.confirmation_password
         /\ \E u \in users : u.email = req'.email )
       => resp'.status = HTTP_409_CONFLICT /\ users' = users]_vars

C4_Witness ==
    /\ req.op = "register"
    /\ resp.status = HTTP_409_CONFLICT
    /\ \E r \in registered : r.email = req.email

\* C5: a register request whose password differs from its confirmation ends
\* in 400 and leaves the users as they were, also when the email is already
\* registered.
C5_MismatchBadRequest ==
    [][( /\ req'.op = "register"
         /\ req'.password # req'.confirmation_password )
       => resp'.status = HTTP_400_BAD_REQUEST /\ users' = users]_vars

C5_Witness ==
    /\ req.op = "register"
    /\ req.password # req.confirmation_password
    /\ resp.status = HTTP_400_BAD_REQUEST
    /\ \E u \in users : u.email = req.email

\* C6: a register request whose password equals its confirmation and whose
\* email belongs to no stored user ends in 201, adds exactly one user, with
\* that email, and returns that user's id, which no other stored user has.
C6_FreshEmailCreatesUser ==
    [][( /\ req'.op = "register"
         /\ req'.password = req'.confirmation_password
         /\ \A u \in users : u.email # req'.email )
       => /\ resp'.status = HTTP_201_CREATED
          /\ \E u \in users' \ users :
                /\ users' = users \cup {u}
                /\ u.email = req'.email
                /\ resp'.user_id = u.id
                /\ \A v \in users : v.id # u.id]_vars

\* C7: every stored blog's creator_id is the id of a stored user and its
\* category_id the id of a stored category, and no list request ends in the
\* error raised for a row whose creator or category is missing.
C7_BlogReferencesExist ==
    /\ \A b \in blogs :
          /\ \E u \in users : u.id = b.creator_id
          /\ \E c \in categories : c.id = b.category_id
    /\ req.op = "list" => resp.detail \notin {"creator missing", "category missing"}

C7_Witness ==
    /\ blogs # {}
    /\ req.op = "list"
    /\ TokenGood(req.token, now, users)
    /\ Page(OneOf(DescOrders(blogs)), (req.page - 1) * req.limit, req.limit) # <<>>

\* The ids of the blogs of a response, in order
ItemIds(r) == [i \in 1..Len(r.items) |-> r.items[i].id]

RowIds(rows) == [i \in 1..Len(rows) |-> rows[i].id]

\* C8: an authenticated list request with limit >= 1 for page p returns (200)
\* at most limit blogs in created_at-descending order; page p+1, listed against
\* the same store, returns blogs none of which page p returned, and the two
\* pages together are the blogs at positions (p-1)*limit+1 .. (p+1)*limit of a
\* created_at-descending order of the stored blogs.
C8_PagesPartitionOrder ==
    ( /\ req.op = "list"
      /\ TokenGood(req.token, now, users)
      /\ req.limit >= 1 )
    => /\ resp.status = HTTP_200_OK
       /\ Len(resp.items) <= req.limit
       /\ \A i, j \in 1..Len(resp.items) :
             i < j => resp.items[i].created_at >= resp.items[j].created_at
       /\ \A ord \in DescOrders(blogs) :
             LET next == list_response(req.limit, req.page + 1, ord)
             IN  /\ next.status = HTTP_200_OK
                 /\ \A i \in 1..Len(resp.items), j \in 1..Len(next.items) :
                       resp.items[i].id # next.items[j].id
                 /\ \E o \in DescOrders(blogs) :
                       ItemIds(resp) \o ItemIds(next) =
                           RowIds(Page(o, (req.page - 1) * req.limit, 2 * req.limit))

\* C9: a create request of an authenticated caller that names a stored
\* category succeeds (201), and a list request for page 1 issued right after
\* it returns a blog with the submitted title, content, image_url and category
\* whose creator is the caller.
C9_CreateThenList ==
    ( /\ req.op = "create"
      /\ TokenGood(req.token, now, users)
      /\ \E c \in categories : c.name = req.body.category.value )
    => /\ resp.status = HTTP_201_CREATED
       /\ \E l \in Limits, ord \in DescOrders(blogs) :
             LET listed == list_response(l, 1, ord)
             IN  /\ listed.status = HTTP_200_OK
                 /\ \E i \in 1..Len(listed.items) :
                       /\ listed.items[i].title = req.body.title
                       /\ listed.items[i].content = req.body.content
                       /\ listed.items[i].image_url = req.body.image_url
                       /\ listed.items[i].category.name = req.body.category.value
                       /\ listed.items[i].creator.id = req.token.sub

\* C10: a create request of an authenticated caller whose category matches no
\* stored category, by id or by name, ends in 404 and adds no blog; one whose
\* category matches a stored category adds a blog of that category.
C10_UnknownCategoryNotFound ==
    [][( /\ req'.op = "create"
         /\ TokenGood(req'.token, now, users) )
       => /\ ( /\ \A c \in categories : c.id # req'.body.category.id
               /\ \A c \in categories : c.name # req'.body.category.value )
             => resp'.status = HTTP_404_NOT_FOUND /\ blogs' = blogs
          /\ \A c \in categories :
                c.name = req'.body.category.value =>
                   \E b \in blogs' \ blogs : b.category_id = c.id]_vars

\* C11: an update of a stored blog by its creator that names a stored
\* category succeeds (200) and leaves the blog with an updated_at later than
\* before and its id, creator_id and created_at as they were; and every stored
\* blog has created_at <= updated_at.
C11_UpdateRefreshesUpdatedAt ==
    [][/\ ( /\ req'.op = "update"
            /\ TokenGood(req'.token, now, users)
            /\ \E c \in categories : c.name = req'.body.category.value )
          => \A b \in blogs :
                (b.id = req'.bid /\ b.creator_id = req'.token.sub) =>
                   /\ resp'.status = HTTP_200_OK
                   /\ \E a \in blogs' :
                         /\ a.id = b.id
                         /\ a.creator_id = b.creator_id
                         /\ a.created_at = b.created_at
                         /\ a.updated_at > b.updated_at
       /\ \A b \in blogs' : b.created_at <= b.updated_at]_vars

\* C12: an authenticated profile request for an id no stored user has ends in
\* 404; for the id of a stored user it returns (200) that user's email and
\* full_name, as registered; either way users, categories and blogs are as
\* before.
C12_ProfileOfStoredUser ==
    [][( /\ req'.op = "profile"
         /\ TokenGood(req'.token, now, users) )
       => /\ (\A u \in users : u.id # req'.uid) => resp'.status = HTTP_404_NOT_FOUND
          /\ \A u \in users :
                u.id = req'.uid =>
                   /\ resp'.status = HTTP_200_OK
                   /\ resp'.profile.email = u.email
                   /\ resp'.profile.full_name = u.full_name
          /\ \A r \in registered :
                r.id = req'.uid =>
                   /\ resp'.profile.email = r.email
                   /\ resp'.profile.full_name = r.full_name
          /\ users' = users /\ categories' = categories /\ blogs' = blogs]_vars

C12_Witness ==
    /\ req.op = "profile"
    /\ resp.status = HTTP_200_OK
    /\ req.token.sub # req.uid
    /\ \E r \in registered :
          r.id = req.uid /\ resp.profile.email = r.email
                         /\ resp.profile.full_name = r.full_name

\* C14: an update of a stored blog by its creator that names a stored category
\* succeeds (200), and the stored blog then has the title, content, image_url
\* and category of that request's body, all four from the one request.
C14_UpdateOverwritesAllFour ==
    ( /\ req.op = "update"
      /\ TokenGood(req.token, now, users)
      /\ \E b \in blogs : b.id = req.bid /\ b.creator_id = req.token.sub
      /\ \E c \in categories : c.name = req.body.category.value )
    => /\ resp.status = HTTP_200_OK
       /\ \E b \in blogs :
             /\ b.id = req.bid
             /\ b.title = req.body.title
             /\ b.content = req.body.content
             /\ b.image_url = req.body.image_url
             /\ \E c \in categories :
                   c.name = req.body.category.value /\ b.category_id = c.id

\* C15: a step whose request ends in an error, and every login, list and
\* profile step, leaves users, categories and blogs as they were; users change
\* only by a register that ends in 201 and adds one user, blogs only by a
\* create that ends in 201 and adds one blog or by an update that ends in 200
\* and keeps the blogs' ids; nothing is ever removed.
C15_FrameOfEveryRequest ==
    [][/\ ( \/ resp'.status \notin {0, HTTP_200_OK, HTTP_201_CREATED}
            \/ req'.op \in {"login", "list", "profile"} )
          => users' = users /\ categories' = categories /\ blogs' = blogs
       /\ users' # users =>
             /\ req'.op = "register" /\ resp'.status = HTTP_201_CREATED
             /\ \E u \in users' \ users : users' = users \cup {u}
       /\ blogs' # blogs =>
             \/ /\ req'.op = "create" /\ resp'.status = HTTP_201_CREATED
                /\ \E b \in blogs' \ blogs : blogs' = blogs \cup {b}
             \/ /\ req'.op = "update" /\ resp'.status = HTTP_200_OK
                /\ {b.id : b \in blogs'} = {b.id : b \in blogs}
       /\ categories' = categories
       /\ users \subseteq users'
       /\ {b.id : b \in blogs} \subseteq {b.id : b \in blogs'}]_vars

C15_Witness ==
    /\ req.op = "create"
    /\ TokenGood(req.token, now, users)
    /\ resp.status = HTTP_500_INTERNAL_SERVER_ERROR
    /\ registered # {}
    /\ blogs = SeedBlogs

\* C13: among the finished register requests that carry the same email and a
\* matching confirmation, at most one ended in 201, every other one ended in
\* 409, and no two stored users share an email.
C13_ConcurrentRegisterConflict ==
    /\ \A u, v \in users : u.email = v.email => u = v
    /\ \A e \in Emails :
          LET same == {w \in Workers :
                          /\ inflight[w].pc = "done"
                          /\ inflight[w].email = e
                          /\ inflight[w].password = inflight[w].confirmation_password}
          IN  /\ \A v, w \in same :
                    ( /\ inflight[v].status = HTTP_201_CREATED
                      /\ inflight[w].status = HTTP_201_CREATED ) => v = w
              /\ \A w \in same :
                    inflight[w].status # HTTP_201_CREATED =>
                        inflight[w].status = HTTP_409_CONFLICT

====
